---- MODULE Spec2Model ----
(***************************************************************************)
(* Model of font-kit's FreeType loader (src/loaders/freetype.rs): the      *)
(* lifecycle of Font handles over refcounted FT_Face objects and shared    *)
(* font buffers, the thread-local FT_Library, the analyze probes, the      *)
(* adoption of a native face, glyph lookup and the outline decoder.        *)
(*                                                                         *)
(* A failed assert_eq!/assert!/unwrap is fatal: the execution is followed  *)
(* up to the failing assertion (aborted = TRUE) and no further.            *)
(***************************************************************************)
EXTENDS Integers, Sequences, FiniteSets, TLC

(* ---------------- bounds ---------------- *)
NumThreads == 2
MaxFaces == 2
MaxBufs == 2
MaxHandles == 2
MaxSubFaces == 2
MaxHeld == 1
MaxChunks == 2
MaxPoints == 4
MaxNames == 2

Threads == 1..NumThreads
FaceIds == 1..MaxFaces
BufIds == 1..MaxBufs
HandleIds == 1..MaxHandles
NULL == 0

(* ---------------- program constants ---------------- *)
CHUNK_SIZE == 4096
FT_POINT_TAG_ON_CURVE == 1
FT_POINT_TAG_CUBIC_CONTROL == 2
PS_DICT_FULL_NAME == 38
TT_NAME_ID_FULL_NAME == 4

VARIABLES
    lib,        \* per thread: the thread-local FREETYPE_LIBRARY and its history
    faces,      \* native FT_Face objects
    bufs,       \* Arc<Vec<u8>> / Arc<Mmap> allocations
    handles,    \* Font values
    last,       \* outcome of the most recent call
    aborted,    \* a fatal assertion has fired
    copied,     \* from_native_font: the buffer its read loop built
    glyph,      \* outline decoder: the loaded glyph's FT_Outline
    path,       \* outline decoder: commands received by the PathBuilder
    outcome,    \* outline decoder: "none" before the call, then "Ok", "panic"
                \* (get_point's assertion) or "load_failed" (FT_Load_Glyph's)
    consumed,   \* outline decoder: get_point's reads, each with the point
                \* index read and the contour's last index it was given
    nameFace,   \* descriptor: the names the native face holds
    descr       \* descriptor: "none" before the call, then "Ok" with the
                \* Descriptor's display_name, or "panic"

vars == <<lib, faces, bufs, handles, last, aborted, copied, glyph, path, outcome,
          consumed, nameFace, descr>>
outlineVars == <<glyph, path, outcome, consumed>>
nameVars == <<nameFace, descr>>
NoCopy == [size |-> 0, len |-> 0, reads |-> <<>>]

(* ---------------- font data given to the engine ---------------- *)
\* What the native engine sees in a byte buffer: whether it parses at all,
\* whether the file is a collection, FT_Face.num_faces, whether the face is
\* scalable (FT_Set_Char_Size succeeds) and its character map.
Chars == {65, 66}
FontCmap == [c \in {65} |-> 1]

FontFile(valid, collection, n, scalable) ==
    [valid |-> valid, collection |-> collection, num_faces |-> n,
     scalable |-> scalable, cmap |-> FontCmap]

Malformed == FontFile(FALSE, FALSE, 0, TRUE)
SingleFont == FontFile(TRUE, FALSE, 1, TRUE)
BitmapFont == FontFile(TRUE, FALSE, 1, FALSE)
CollectionFont(n) == FontFile(TRUE, TRUE, n, TRUE)

FontFiles == {Malformed, SingleFont, BitmapFont} \cup {CollectionFont(n) : n \in 1..MaxSubFaces}
FontIndexes == 0..MaxSubFaces

(* ---------------- empty slots ---------------- *)
NoFace == [state |-> "free", refcount |-> 0, mem |-> NULL, owned |-> FALSE]
NoBuf == [state |-> "free", strong |-> 0, held |-> 0, kind |-> "none", data |-> Malformed]
\* cloned is history: the handle was made by Clone::clone.
NoHandle == [state |-> "free", freetype_face |-> NULL, font_data |-> NULL, thread |-> 0,
             cloned |-> FALSE]

(* ---------------- native engine ---------------- *)
\* FT_New_Memory_Face: 0 on success, an error code when the data does not
\* parse or the face index is out of range.
FT_New_Memory_Face(data, face_index) ==
    IF data.valid /\ face_index < data.num_faces THEN 0 ELSE 1

\* The face object FT_New_Memory_Face creates: reference count 1, parsing
\* lazily out of the caller's memory mem, which the engine does not own.
NewFace(fs, f, b) ==
    [fs EXCEPT ![f] = [state |-> "live", refcount |-> 1, mem |-> b, owned |-> FALSE]]

FT_Reference_Face(fs, f) == [fs EXCEPT ![f].refcount = @ + 1]

\* FT_Done_Face: decrement; destroy the object when the count reaches zero
\* (its memory returns to the allocator). Called on an object that is already
\* destroyed it is a double free: the slot is corrupt from then on.
FT_Done_Face(fs, f) ==
    IF fs[f].state = "live"
    THEN IF fs[f].refcount = 1
         THEN [fs EXCEPT ![f] = NoFace]
         ELSE [fs EXCEPT ![f].refcount = @ - 1]
    ELSE [fs EXCEPT ![f] = [NoFace EXCEPT !.state = "corrupt"]]

\* FT_Set_Char_Size(face, units_per_EM << 6, 0, 0, 0)
FT_Set_Char_Size(data) == IF data.scalable THEN 0 ELSE 1

\* FT_Get_Char_Index: the glyph index, or 0 for an unmapped character code.
FT_Get_Char_Index(data, c) == IF c \in DOMAIN data.cmap THEN data.cmap[c] ELSE 0

(* ---------------- thread-local engine instance ---------------- *)
\* inst: the thread has an FT_Library; inits: successful FT_Init_FreeType calls.
\* History: called = the thread has made a load or analyze call, returned = one
\* of them returned, reached = one of them got through FREETYPE_LIBRARY.with.
NoLib == [inst |-> 0, inits |-> 0, called |-> FALSE, returned |-> FALSE,
          reached |-> FALSE]

FREETYPE_LIBRARY_reinit(l) ==
    [l EXCEPT !.inst = 1, !.inits = IF @ < 2 THEN @ + 1 ELSE @]

\* thread_local! lazy initialisation: FT_Init_FreeType runs on the first
\* access of the thread only.
FREETYPE_LIBRARY(l) ==
    IF l.inst = 0 THEN [l EXCEPT !.inst = 1, !.inits = @ + 1] ELSE l

\* Outcomes of FT_Init_FreeType on this access (TRUE = returned 0).
InitOutcomes(t) == IF lib[t].inst = 0 THEN BOOLEAN ELSE {TRUE}

\* lib after a call on thread t: touch = the call reached FREETYPE_LIBRARY.with
\* and initialisation succeeded, ret = the call returned to its caller.
LibAfter(t, touch, ret) ==
    [lib EXCEPT ![t] = [(IF touch THEN FREETYPE_LIBRARY(@) ELSE @)
                            EXCEPT !.called = TRUE, !.returned = @ \/ ret,
                                   !.reached = @ \/ touch]]

(* ---------------- slots ---------------- *)
Min(S) == CHOOSE x \in S : \A y \in S : x <= y
FreeFaces == {f \in FaceIds : faces[f].state = "free"}
FreeBufs == {b \in BufIds : bufs[b].state = "free"}
FreeHandles == {h \in HandleIds : handles[h].state = "free"}

\* The thread is not in the middle of dropping a Font.
Idle(t) == /\ ~aborted
           /\ \A h \in HandleIds : handles[h].thread = t => handles[h].state # "dropping"

(* ---------------- Arc<..> buffers ---------------- *)
\* An Arc argument: a freshly allocated buffer, or a clone the caller obtained
\* from font_data() and now moves into the call.
ArcSources ==
    [kind : {"fresh"}, data : FontFiles, b : {NULL}]
    \cup [kind : {"held"}, data : {Malformed},
          b : {b \in BufIds : bufs[b].state = "live" /\ bufs[b].held > 0
                               /\ bufs[b].kind = "Memory"}]

ArcOf(src) == IF src.kind = "fresh" THEN Min(FreeBufs) ELSE src.b
ArcReady(src) == src.kind = "fresh" => FreeBufs # {}

NewBuf(bs, b, kind, data) ==
    [bs EXCEPT ![b] = [state |-> "live", strong |-> 1, held |-> 0, kind |-> kind,
                       data |-> data]]

\* bufs once the argument is owned by the callee.
ArcTaken(src) ==
    IF src.kind = "fresh" THEN NewBuf(bufs, Min(FreeBufs), "Memory", src.data)
    ELSE [bufs EXCEPT ![src.b].held = @ - 1]

ArcClone_noinc(bs, b) == bs

\* FontData values in the hands of callers (results of font_data()).
RECURSIVE SumHeld(_)
SumHeld(n) == IF n = 0 THEN 0 ELSE bufs[n].held + SumHeld(n - 1)
HeldTotal == SumHeld(MaxBufs)

\* Arc::clone (FontData is #[derive(Clone)]).
ArcClone(bs, b) == [bs EXCEPT ![b].strong = @ + 1]

\* Arc::drop: the allocation (or mapping) is released with the last reference.
ArcDrop(bs, b) ==
    IF bs[b].state = "live"
    THEN IF bs[b].strong = 1
         THEN [bs EXCEPT ![b] = NoBuf]
         ELSE [bs EXCEPT ![b].strong = @ - 1]
    ELSE [bs EXCEPT ![b] = [NoBuf EXCEPT !.state = "corrupt"]]

(* ---------------- results ---------------- *)
NoResult == [op |-> "none", ret |-> "none"]

(* ---------------- Font::from_bytes / Font::from_file ---------------- *)
\* The body both loaders share once the bytes are in buffer b (bs = bufs with
\* that buffer): FREETYPE_LIBRARY.with, FT_New_Memory_Face, setup_freetype_face,
\* Ok(Font { freetype_face, font_data }).
LoadFace(op, t, b, bs, font_index, initOk) ==
    LET data == bs[b].data
        f == Min(FreeFaces)
        h == Min(FreeHandles)
    IN  /\ FreeFaces # {} /\ FreeHandles # {}
        /\ bufs' = bs
        /\ IF ~initOk
           THEN /\ lib' = LibAfter(t, FALSE, FALSE)
                /\ aborted' = TRUE
                /\ last' = [op |-> op, ret |-> "panic", rejected |-> FALSE]
                /\ UNCHANGED <<faces, handles>>
           ELSE IF FT_New_Memory_Face(data, font_index) # 0
           THEN /\ lib' = LibAfter(t, TRUE, FALSE)
                /\ aborted' = TRUE
                /\ last' = [op |-> op, ret |-> "panic", rejected |-> TRUE]
                /\ UNCHANGED <<faces, handles>>
           ELSE IF FT_Set_Char_Size(data) # 0
           THEN /\ lib' = LibAfter(t, TRUE, FALSE)
                /\ aborted' = TRUE
                /\ faces' = NewFace(faces, f, b)
                /\ last' = [op |-> op, ret |-> "panic", rejected |-> FALSE]
                /\ UNCHANGED handles
           ELSE /\ lib' = LibAfter(t, TRUE, TRUE)
                /\ faces' = [NewFace(faces, f, b) EXCEPT ![f].owned = TRUE]
                /\ handles' = [handles EXCEPT ![h] =
                                  [state |-> "live", freetype_face |-> f, font_data |-> b,
                                   thread |-> t, cloned |-> FALSE]]
                /\ last' = [op |-> op, ret |-> "Ok", rejected |-> FALSE]
                /\ UNCHANGED aborted

from_bytes(t, src, font_index, initOk) ==
    /\ Idle(t)
    /\ ArcReady(src)
    /\ LoadFace("from_bytes", t, ArcOf(src), ArcTaken(src), font_index, initOk)
    /\ UNCHANGED <<copied, outlineVars, nameVars>>

\* file = [mapOk, data]: whether Mmap::map succeeds, and the file's contents.
Files == [mapOk : {TRUE}, data : FontFiles] \cup {[mapOk |-> FALSE, data |-> Malformed]}

from_file(t, file, font_index, initOk) ==
    /\ Idle(t)
    /\ IF ~file.mapOk
       THEN /\ initOk
            /\ lib' = LibAfter(t, FALSE, TRUE)
            /\ last' = [op |-> "from_file", ret |-> "Err", rejected |-> FALSE]
            /\ UNCHANGED <<faces, bufs, handles, aborted>>
       ELSE /\ FreeBufs # {}
            /\ LoadFace("from_file", t, Min(FreeBufs),
                        NewBuf(bufs, Min(FreeBufs), "File", file.data), font_index, initOk)
    /\ UNCHANGED <<copied, outlineVars, nameVars>>

(* ---------------- Clone / Drop ---------------- *)
CloneFace_noref(fs, f) == fs

\* assert_eq!(FT_Reference_Face(self.freetype_face), 0)
CloneFace(fs, f) == FT_Reference_Face(fs, f)

clone(t, h) ==
    /\ Idle(t)
    /\ handles[h].state = "live" /\ handles[h].thread = t
    /\ FreeHandles # {}
    /\ LET h2 == Min(FreeHandles) IN
        /\ faces' = CloneFace(faces, handles[h].freetype_face)
        /\ bufs' = ArcClone(bufs, handles[h].font_data)
        /\ handles' = [handles EXCEPT ![h2] =
                          [state |-> "live", freetype_face |-> handles[h].freetype_face,
                           font_data |-> handles[h].font_data, thread |-> t,
                           cloned |-> TRUE]]
        /\ last' = [op |-> "clone", ret |-> "Ok"]
    /\ UNCHANGED <<lib, aborted, copied, outlineVars, nameVars>>

DropOrder_fields_first == <<"font_data", "freetype_face">>

\* Dropping a Font runs Drop::drop (FT_Done_Face) and then drops the fields
\* (the FontData and its Arc). A field that has been released is not read
\* again: the model clears it.
DropOrder == <<"freetype_face", "font_data">>

\* if !self.freetype_face.is_null() { assert_eq!(FT_Done_Face(..), 0) }
DropFace(fs, f) == IF f # NULL THEN FT_Done_Face(fs, f) ELSE fs

DropPart(part, h) ==
    IF part = "freetype_face"
    THEN /\ faces' = DropFace(faces, handles[h].freetype_face)
         /\ UNCHANGED bufs
    ELSE /\ bufs' = ArcDrop(bufs, handles[h].font_data)
         /\ UNCHANGED faces

drop(t, h) ==
    /\ Idle(t)
    /\ handles[h].state = "live" /\ handles[h].thread = t
    /\ DropPart(DropOrder[1], h)
    /\ handles' = [handles EXCEPT ![h].state = "dropping", ![h][DropOrder[1]] = NULL]
    /\ last' = [op |-> "drop", ret |-> "dropping"]
    /\ UNCHANGED <<lib, aborted, copied, outlineVars, nameVars>>

drop_fields(t, h) ==
    /\ ~aborted
    /\ handles[h].state = "dropping" /\ handles[h].thread = t
    /\ DropPart(DropOrder[2], h)
    /\ handles' = [handles EXCEPT ![h] = NoHandle]
    /\ last' = [op |-> "drop", ret |-> "dropped"]
    /\ UNCHANGED <<lib, aborted, copied, outlineVars, nameVars>>

(* ---------------- Font::font_data ---------------- *)
\* match self.font_data { File(_) | Memory(_) => Some(self.font_data.clone()),
\*                        Unused(_) => unreachable!() }
font_data(t, h) ==
    /\ Idle(t)
    /\ handles[h].state = "live" /\ handles[h].thread = t
    /\ LET b == handles[h].font_data IN
        /\ HeldTotal < MaxHeld
        /\ IF bufs[b].kind \in {"File", "Memory"}
           THEN /\ bufs' = [ArcClone(bufs, b) EXCEPT ![b].held = @ + 1]
                /\ last' = [op |-> "font_data", ret |-> "Some"]
                /\ UNCHANGED aborted
           ELSE /\ aborted' = TRUE
                /\ last' = [op |-> "font_data", ret |-> "panic"]
                /\ UNCHANGED bufs
    /\ UNCHANGED <<lib, faces, handles, copied, outlineVars, nameVars>>

\* The caller lets go of a FontData it got from font_data().
drop_FontData(b) ==
    /\ ~aborted
    /\ bufs[b].state = "live" /\ bufs[b].held > 0
    /\ bufs' = ArcDrop([bufs EXCEPT ![b].held = @ - 1], b)
    /\ last' = [op |-> "drop_FontData", ret |-> "Ok"]
    /\ UNCHANGED <<lib, faces, handles, aborted, copied, outlineVars, nameVars>>

(* ---------------- Font::glyph_for_char ---------------- *)
glyph_for_char_ret_none_on_zero(index) ==
    IF index = 0 THEN [some |-> FALSE, id |-> 0] ELSE [some |-> TRUE, id |-> index]

\* Some(FT_Get_Char_Index(self.freetype_face, character as FT_ULong))
glyph_for_char_ret(index) == [some |-> TRUE, id |-> index]

\* The native object and its memory are there to be read.
Readable(f) == /\ f # NULL
               /\ faces[f].state = "live"
               /\ bufs[faces[f].mem].state = "live"

glyph_for_char(t, h, c) ==
    /\ Idle(t)
    /\ handles[h].state = "live" /\ handles[h].thread = t
    /\ LET f == handles[h].freetype_face IN
       \E index \in (IF Readable(f)
                     THEN {FT_Get_Char_Index(bufs[faces[f].mem].data, c)}
                     ELSE {0, 1}) :
          last' = [op |-> "glyph_for_char", ret |-> "Ok", h |-> h,
                   mapped |-> c \in DOMAIN FontCmap,
                   onLive |-> Readable(f), opt |-> glyph_for_char_ret(index)]
    /\ UNCHANGED <<lib, faces, bufs, handles, aborted, copied, outlineVars, nameVars>>

(* ---------------- Font::analyze_bytes / Font::analyze_file ---------------- *)
\* match (*freetype_face).num_faces { 1 => Single, n => Collection(n as u32) }
font_type(num_faces) ==
    IF num_faces = 1 THEN [ret |-> "Single", n |-> 0]
    ELSE [ret |-> "Collection", n |-> num_faces]

AnalyzeDone_leak(fs, f) == fs

\* FT_Done_Face(freetype_face) before the probe returns its font_type.
AnalyzeDone(fs, f) == FT_Done_Face(fs, f)

\* The probe proper, on buffer b of bs, which is dropped when the probe returns.
AnalyzeFace(op, t, b, bs, initOk) ==
    LET data == bs[b].data
        f == Min(FreeFaces)
    IN  /\ FreeFaces # {}
        /\ UNCHANGED handles
        /\ IF ~initOk
           THEN /\ lib' = LibAfter(t, FALSE, FALSE)
                /\ aborted' = TRUE
                /\ bufs' = bs
                /\ last' = [op |-> op, ret |-> "panic", n |-> 0, data |-> data]
                /\ UNCHANGED faces
           ELSE /\ lib' = LibAfter(t, TRUE, TRUE)
                /\ bufs' = ArcDrop(bs, b)
                /\ UNCHANGED aborted
                /\ IF FT_New_Memory_Face(data, 0) # 0
                   THEN /\ last' = [op |-> op, ret |-> "Unsupported", n |-> 0,
                                    data |-> data]
                        /\ UNCHANGED faces
                   ELSE /\ faces' = AnalyzeDone(NewFace(faces, f, b), f)
                        /\ last' = [op |-> op, ret |-> font_type(data.num_faces).ret,
                                    n |-> font_type(data.num_faces).n, data |-> data]

analyze_bytes(t, src, initOk) ==
    /\ Idle(t)
    /\ ArcReady(src)
    /\ AnalyzeFace("analyze_bytes", t, ArcOf(src), ArcTaken(src), initOk)
    /\ UNCHANGED <<copied, outlineVars, nameVars>>

analyze_file(t, file, initOk) ==
    /\ Idle(t)
    /\ IF ~initOk
       THEN /\ lib' = LibAfter(t, FALSE, FALSE)
            /\ aborted' = TRUE
            /\ last' = [op |-> "analyze_file", ret |-> "panic", n |-> 0,
                        data |-> file.data]
            /\ UNCHANGED <<faces, bufs, handles>>
       ELSE IF ~file.mapOk
       THEN /\ lib' = LibAfter(t, TRUE, TRUE)
            /\ last' = [op |-> "analyze_file", ret |-> "Unsupported", n |-> 0,
                        data |-> Malformed]
            /\ UNCHANGED <<faces, bufs, handles, aborted>>
       ELSE /\ FreeBufs # {}
            /\ AnalyzeFace("analyze_file", t, Min(FreeBufs),
                           NewBuf(bufs, Min(FreeBufs), "File", file.data), initOk)
    /\ UNCHANGED <<copied, outlineVars, nameVars>>

(* ---------------- Font::from_native_font ---------------- *)
\* The bytes of the adopted face's stream: position i holds StreamByte(i)
\* (never 0, so a byte of the stream differs from the zero fill).
StreamByte(i) == (i % 251) + 1

\* FT_Stream's read(stream, offset, buffer, count): copies the bytes at
\* offset.. of the stream to the start of buffer, returns how many it copied.
StreamRead(size, offset, count) ==
    IF offset >= size THEN 0
    ELSE IF size - offset < count THEN size - offset ELSE count

ReadOffset_before_extend(len) == len - CHUNK_SIZE

\* The offset argument of the read call: font_data.len() as u64, taken after
\* the extend of this iteration.
ReadOffset(len) == len

\* The buffer argument of the read call, as an offset into font_data:
\* font_data.as_mut_ptr().
ReadDest(len) == 0

\* loop { extend by CHUNK_SIZE zeros; n_read = read(..); if n_read < CHUNK_SIZE
\* { break } }: the length of font_data and the reads made, in order.
RECURSIVE ReadLoop(_, _, _)
ReadLoop(size, len, reads) ==
    LET len1 == len + CHUNK_SIZE
        n_read == StreamRead(size, ReadOffset(len1), CHUNK_SIZE)
        reads1 == Append(reads, [offset |-> ReadOffset(len1), dst |-> ReadDest(len1),
                                 n |-> n_read])
    IN  IF n_read < CHUNK_SIZE
        THEN [size |-> size, len |-> len1, reads |-> reads1]
        ELSE ReadLoop(size, len1, reads1)

Max(S) == CHOOSE x \in S : \A y \in S : x >= y

\* Byte i of the buffer a read loop built: what the last read covering i put
\* there, or the zero fill.
BufByte(buf, i) ==
    LET cover == {k \in 1..Len(buf.reads) :
                     buf.reads[k].dst <= i /\ i < buf.reads[k].dst + buf.reads[k].n}
    IN  IF cover = {} THEN 0
        ELSE StreamByte(buf.reads[Max(cover)].offset + (i - buf.reads[Max(cover)].dst))

\* The buffer holds the stream's bytes at offsets 0..size-1.
HoldsStream(buf) ==
    /\ buf.len >= buf.size
    /\ \A i \in 0..(buf.size - 1) : BufByte(buf, i) = StreamByte(i)

\* native = [size, hasRead, data]: the length of the adopted face's stream,
\* whether the stream has a read function, and the font the stream holds.
StreamSizes == {k * CHUNK_SIZE + d : k \in 0..MaxChunks, d \in {-1, 0, 1}} \ {-1, 0}
NativeFonts == [size : StreamSizes, hasRead : BOOLEAN, data : {SingleFont}]

from_native_font(t, native, initOk) ==
    /\ Idle(t)
    /\ FreeBufs # {}
    /\ IF ~native.hasRead
       THEN /\ initOk
            /\ copied' = [size |-> native.size, len |-> CHUNK_SIZE, reads |-> <<>>]
            /\ lib' = LibAfter(t, FALSE, FALSE)
            /\ aborted' = TRUE
            /\ last' = [op |-> "from_native_font", ret |-> "panic", rejected |-> FALSE]
            /\ UNCHANGED <<faces, bufs, handles>>
       ELSE LET buf == ReadLoop(native.size, 0, <<>>)
                seen == IF HoldsStream(buf) THEN native.data ELSE Malformed
            IN  /\ copied' = buf
                /\ LoadFace("from_native_font", t, Min(FreeBufs),
                            NewBuf(bufs, Min(FreeBufs), "Memory", seen), 0, initOk)
    /\ UNCHANGED <<outlineVars, nameVars>>

(* ---------------- Font::outline ---------------- *)
\* An FT_Outline: contours[k] is the index of the last point of contour k
\* (strictly increasing, the last one n_points - 1), tags the points' tags.
\* Indexes count from 0 as in the code; a point's position is stood for by
\* its index.
TagValues == 0..3
CutsOf(n) == {c \in SUBSET (0..(n - 1)) : (n - 1) \in c}

RECURSIVE SortedSeq(_)
SortedSeq(c) == IF c = {} THEN <<>> ELSE Append(SortedSeq(c \ {Max(c)}), Max(c))

Glyphs ==
    {[contours |-> <<>>, tags |-> <<>>]}
    \cup UNION {{[contours |-> SortedSeq(c), tags |-> tg] :
                    c \in CutsOf(n), tg \in [1..n -> TagValues]} : n \in 1..MaxPoints}

BitSet(tag, bit) == (tag \div bit) % 2 = 1

\* (tag & FT_POINT_TAG_ON_CURVE) != 0
OnCurve(tag) == BitSet(tag, FT_POINT_TAG_ON_CURVE)

CubicControl_inverted(tag) == ~BitSet(tag, FT_POINT_TAG_CUBIC_CONTROL)

\* (tag & FT_POINT_TAG_CUBIC_CONTROL) != 0
CubicControl(tag) == BitSet(tag, FT_POINT_TAG_CUBIC_CONTROL)

\* The decoder's locals: current_point_index, the commands given to the path
\* builder so far, the points read so far, and whether an assertion failed.
Decoder0 == [cpi |-> 0, cmds |-> <<>>, read |-> <<>>, panic |-> FALSE]

\* get_point without its assertion.
get_point_unchecked(st, last_point_index_in_contour) ==
    [st EXCEPT !.cpi = @ + 1,
               !.read = Append(@, [point |-> st.cpi,
                                   last |-> last_point_index_in_contour])]

\* get_point: assert!(*current_point_index <= last_point_index_in_contour),
\* read the point and its tag, advance the index.
get_point(st, last_point_index_in_contour) ==
    IF st.cpi <= last_point_index_in_contour
    THEN [st EXCEPT !.cpi = @ + 1,
                    !.read = Append(@, [point |-> st.cpi,
                                        last |-> last_point_index_in_contour])]
    ELSE [st EXCEPT !.panic = TRUE]

Emit(st, cmd, pts) == [st EXCEPT !.cmds = Append(@, [cmd |-> cmd, pts |-> pts])]

\* One pass of the while loop's body, from a state with cpi <= last.
Segment(g, st, lastp) ==
    LET i == st.cpi
        tag == g.tags[i + 1]
        s0 == get_point(st, lastp)
    IN  IF OnCurve(tag) THEN Emit(s0, "line_to", <<i>>)
        ELSE LET s1 == get_point(s0, lastp) IN
             IF s1.panic THEN s1
             ELSE IF CubicControl(tag)
             THEN LET s2 == get_point(s1, lastp) IN
                  IF s2.panic THEN s2
                  ELSE Emit(s2, "cubic_bezier_to", <<i, i + 1, i + 2>>)
             ELSE Emit(s1, "quadratic_bezier_to", <<i, i + 1>>)

\* while current_point_index <= last_point_index_in_contour { .. }
RECURSIVE Segments(_, _, _)
Segments(g, st, lastp) ==
    IF st.panic \/ st.cpi > lastp THEN st
    ELSE Segments(g, Segment(g, st, lastp), lastp)

\* The body of `for &last_point_index_in_contour in contours`.
Contour(g, st, lastp) ==
    LET s0 == get_point(st, lastp) IN
    IF s0.panic THEN s0
    ELSE LET s1 == Segments(g, Emit(s0, "move_to", <<st.cpi>>), lastp) IN
         IF s1.panic THEN s1 ELSE Emit(s1, "close", <<>>)

RECURSIVE Contours(_, _, _)
Contours(g, st, k) ==
    IF st.panic \/ k > Len(g.contours) THEN st
    ELSE Contours(g, Contour(g, st, g.contours[k]), k + 1)

\* outline: assert_eq!(FT_Load_Glyph(..), 0), then the decoding loop.
\* loaded = FT_Load_Glyph returned 0 and left glyph in the face's glyph slot.
outline(loaded) ==
    /\ outcome = "none"
    /\ IF ~loaded
       THEN /\ outcome' = "load_failed"
            /\ path' = <<>>
            /\ consumed' = <<>>
       ELSE LET st == Contours(glyph, Decoder0, 1) IN
            /\ outcome' = IF st.panic THEN "panic" ELSE "Ok"
            /\ path' = st.cmds
            /\ consumed' = st.read
    /\ UNCHANGED <<glyph, lib, faces, bufs, handles, last, aborted, copied, nameVars>>

(* ---------------- Font::descriptor ---------------- *)
\* Strings are sequences of code points, byte strings sequences of bytes.
None == [some |-> FALSE, v |-> <<>>]
Some(v) == [some |-> TRUE, v |-> v]

\* FT_SfntName.platform_id and .name_id values that occur in name tables.
TT_PLATFORM_MACINTOSH == 1
TT_PLATFORM_MICROSOFT == 3
TT_NAME_ID_FONT_FAMILY == 1

\* A Microsoft-platform record holds UTF-16 big-endian text: "A", "B", a lone
\* high surrogate, a surrogate pair. A Macintosh-platform record holds one
\* byte per character: "A", "AB".
Utf16Strings == {<<0, 65>>, <<0, 66>>, <<216, 0>>, <<216, 0, 220, 0>>}
MacStrings == {<<65>>, <<65, 66>>}

SfntNames ==
    [platform_id : {TT_PLATFORM_MICROSOFT},
     name_id : {TT_NAME_ID_FONT_FAMILY, TT_NAME_ID_FULL_NAME},
     string : Utf16Strings]
    \cup [platform_id : {TT_PLATFORM_MACINTOSH},
          name_id : {TT_NAME_ID_FONT_FAMILY, TT_NAME_ID_FULL_NAME},
          string : MacStrings]

NameTables == UNION {[1..n -> SfntNames] : n \in 0..MaxNames}

\* The face's PostScript dictionary full name: none, "F", or a byte that is
\* not UTF-8.
PsValues == {<<>>, <<70>>, <<255>>}

\* (*freetype_face).family_name
FamilyName == <<82>>

NameFaces == [ps : PsValues, names : NameTables, family_name : {FamilyName}]
NoNames == [ps |-> <<>>, names |-> <<>>, family_name |-> FamilyName]
NoDescr == [state |-> "none", display_name |-> <<>>]

\* FT_Get_PS_Font_Value: the number of bytes the value takes, -1 without one.
FT_Get_PS_Font_Value(face, key) ==
    IF key = PS_DICT_FULL_NAME /\ face.ps # <<>> THEN Len(face.ps) ELSE -1

\* What the second FT_Get_PS_Font_Value call, the one that fills the buffer,
\* may return: the size again, or the 0 the code compares it with.
PsReturns(face) == {FT_Get_PS_Font_Value(face, PS_DICT_FULL_NAME), 0}

\* String::from_utf8(buffer).ok(), for bytes that are ASCII or no UTF-8 at all.
from_utf8(bytes) ==
    IF \A i \in 1..Len(bytes) : bytes[i] < 128 THEN Some(bytes) ELSE None

\* while !sfnt_name_bytes.is_empty() { push(read_u16::<BigEndian>().unwrap()) }
RECURSIVE read_u16s(_)
read_u16s(bytes) ==
    IF Len(bytes) = 0 THEN [panic |-> FALSE, units |-> <<>>]
    ELSE IF Len(bytes) = 1 THEN [panic |-> TRUE, units |-> <<>>]
    ELSE LET rest == read_u16s(SubSeq(bytes, 3, Len(bytes))) IN
         IF rest.panic THEN rest
         ELSE [panic |-> FALSE, units |-> <<bytes[1] * 256 + bytes[2]>> \o rest.units]

HighSurrogate(u) == u \in 55296..56319
LowSurrogate(u) == u \in 56320..57343

\* String::from_utf16: Err on an unpaired surrogate.
RECURSIVE from_utf16(_)
from_utf16(units) ==
    IF units = <<>> THEN Some(<<>>)
    ELSE LET u == units[1] IN
         IF LowSurrogate(u) THEN None
         ELSE IF HighSurrogate(u)
         THEN IF Len(units) >= 2 /\ LowSurrogate(units[2])
              THEN LET rest == from_utf16(SubSeq(units, 3, Len(units))) IN
                   IF rest.some
                   THEN Some(<<65536 + (u - 55296) * 1024 + (units[2] - 56320)>>
                             \o rest.v)
                   ELSE None
              ELSE None
         ELSE LET rest == from_utf16(SubSeq(units, 2, Len(units))) IN
              IF rest.some THEN Some(<<u>> \o rest.v) ELSE None

\* if sfnt_name.name_id != sfnt_id { continue }
NameMatches(sfnt_name, sfnt_id) == sfnt_name.name_id = sfnt_id

\* for sfnt_name_index in 0..sfnt_name_count { .. }; FT_Get_Sfnt_Name returns
\* 0 for every index below the count.
RECURSIVE ScanNames(_, _, _)
ScanNames(names, sfnt_name_index, sfnt_id) ==
    IF sfnt_name_index >= Len(names) THEN [panic |-> FALSE, ret |-> None]
    ELSE LET sfnt_name == names[sfnt_name_index + 1]
             read == read_u16s(sfnt_name.string)
             result == from_utf16(read.units)
         IN  IF ~NameMatches(sfnt_name, sfnt_id)
             THEN ScanNames(names, sfnt_name_index + 1, sfnt_id)
             ELSE IF read.panic THEN [panic |-> TRUE, ret |-> None]
             ELSE IF result.some THEN [panic |-> FALSE, ret |-> result]
             ELSE ScanNames(names, sfnt_name_index + 1, sfnt_id)

\* filled = what the buffer-filling FT_Get_PS_Font_Value call returned.
get_type_1_or_sfnt_name(face, type_1_id, sfnt_id, filled) ==
    LET ps_value_size == FT_Get_PS_Font_Value(face, type_1_id) IN
    IF ps_value_size > 0 /\ filled = 0
    THEN [panic |-> FALSE, ret |-> from_utf8(face.ps)]
    ELSE ScanNames(face.names, 0, sfnt_id)

\* descriptor's display_name: get_type_1_or_sfnt_name(PS_DICT_FULL_NAME,
\* TT_NAME_ID_FULL_NAME).unwrap_or_else(|| family_name.clone()). The other
\* fields of the Descriptor are read from the face independently of it.
descriptor(filled) ==
    /\ descr.state = "none"
    /\ LET name == get_type_1_or_sfnt_name(nameFace, PS_DICT_FULL_NAME,
                                           TT_NAME_ID_FULL_NAME, filled)
       IN  descr' = IF name.panic
                    THEN [state |-> "panic", display_name |-> <<>>]
                    ELSE [state |-> "Ok",
                          display_name |-> IF name.ret.some THEN name.ret.v
                                           ELSE nameFace.family_name]
    /\ UNCHANGED <<nameFace, lib, faces, bufs, handles, last, aborted, copied,
                   outlineVars>>

(* ---------------- specification ---------------- *)
Init ==
    /\ lib = [t \in Threads |-> NoLib]
    /\ faces = [f \in FaceIds |-> NoFace]
    /\ bufs = [b \in BufIds |-> NoBuf]
    /\ handles = [h \in HandleIds |-> NoHandle]
    /\ last = NoResult
    /\ aborted = FALSE
    /\ copied = NoCopy
    /\ glyph = [contours |-> <<>>, tags |-> <<>>]
    /\ path = <<>>
    /\ outcome = "none"
    /\ consumed = <<>>
    /\ nameFace = NoNames
    /\ descr = NoDescr

InitOutline ==
    /\ lib = [t \in Threads |-> NoLib]
    /\ faces = [f \in FaceIds |-> NoFace]
    /\ bufs = [b \in BufIds |-> NoBuf]
    /\ handles = [h \in HandleIds |-> NoHandle]
    /\ last = NoResult
    /\ aborted = FALSE
    /\ copied = NoCopy
    /\ glyph \in Glyphs
    /\ path = <<>>
    /\ outcome = "none"
    /\ consumed = <<>>
    /\ nameFace = NoNames
    /\ descr = NoDescr

NextOutline == \E loaded \in BOOLEAN : outline(loaded)

SpecOutline == InitOutline /\ [][NextOutline]_vars

InitDescriptor ==
    /\ lib = [t \in Threads |-> NoLib]
    /\ faces = [f \in FaceIds |-> NoFace]
    /\ bufs = [b \in BufIds |-> NoBuf]
    /\ handles = [h \in HandleIds |-> NoHandle]
    /\ last = NoResult
    /\ aborted = FALSE
    /\ copied = NoCopy
    /\ glyph = [contours |-> <<>>, tags |-> <<>>]
    /\ path = <<>>
    /\ outcome = "none"
    /\ consumed = <<>>
    /\ nameFace \in NameFaces
    /\ descr = NoDescr

NextDescriptor == \E filled \in PsReturns(nameFace) : descriptor(filled)

SpecDescriptor == InitDescriptor /\ [][NextDescriptor]_vars

NextProbe ==
    \/ \E t \in Threads : \E file \in Files, i \in FontIndexes, ok \in InitOutcomes(t) :
          from_file(t, file, i, ok)
    \/ \E t \in Threads : \E src \in ArcSources, i \in FontIndexes, ok \in InitOutcomes(t) :
          from_bytes(t, src, i, ok)
    \/ \E t \in Threads, h \in HandleIds : drop(t, h)
    \/ \E t \in Threads, h \in HandleIds : drop_fields(t, h)
    \/ \E t \in Threads : \E src \in ArcSources, ok \in InitOutcomes(t) :
          analyze_bytes(t, src, ok)
    \/ \E t \in Threads : \E file \in Files, ok \in InitOutcomes(t) :
          analyze_file(t, file, ok)
    \/ \E t \in Threads : \E native \in NativeFonts, ok \in InitOutcomes(t) :
          from_native_font(t, native, ok)

SpecProbe == Init /\ [][NextProbe]_vars

Next ==
    \/ \E t \in Threads : \E file \in Files, i \in FontIndexes, ok \in InitOutcomes(t) :
          from_file(t, file, i, ok)
    \/ \E t \in Threads : \E src \in ArcSources, i \in FontIndexes, ok \in InitOutcomes(t) :
          from_bytes(t, src, i, ok)
    \/ \E t \in Threads, h \in HandleIds : clone(t, h)
    \/ \E t \in Threads, h \in HandleIds : drop(t, h)
    \/ \E t \in Threads, h \in HandleIds : drop_fields(t, h)
    \/ \E t \in Threads, h \in HandleIds : font_data(t, h)
    \/ \E b \in BufIds : drop_FontData(b)
    \/ \E t \in Threads, h \in HandleIds, c \in Chars : glyph_for_char(t, h, c)

Spec == Init /\ [][Next]_vars
(* ======================= claims ======================= *)
LiveHandlesOf(f) ==
    {h \in HandleIds : handles[h].state = "live" /\ handles[h].freetype_face = f}

\* C1: for a native face handed out by from_bytes / from_file, whatever clones
\* and drops have happened, the native reference count equals the number of
\* live handles; the object is gone exactly when the last handle's drop has
\* run, is never released twice, and is never released under a live handle.
Thm_C1 ==
    \A f \in FaceIds :
        /\ faces[f].state # "corrupt"
        /\ (faces[f].state = "live" /\ faces[f].owned)
              => /\ faces[f].refcount = Cardinality(LiveHandlesOf(f))
                 /\ LiveHandlesOf(f) # {}
        /\ LiveHandlesOf(f) # {} => faces[f].state = "live" /\ faces[f].owned

\* The last handle of a face, a clone, has just run Drop::drop: the native
\* object is released and no handle to it is left.
Wit_C1 ==
    \E h \in HandleIds :
        /\ handles[h].state = "dropping" /\ handles[h].cloned
        /\ \A f \in FaceIds : faces[f].state = "free"
        /\ \A k \in HandleIds : k # h => handles[k].state = "free"

\* C2: a clone whose source handle has been dropped still refers to an
\* unreleased native object over a live buffer, under any further clones and
\* drops, and its operations run against that object.
Thm_C2 ==
    /\ \A h \in HandleIds :
          (handles[h].state = "live" /\ handles[h].cloned)
             => /\ Readable(handles[h].freetype_face)
                /\ bufs[handles[h].font_data].state = "live"
                /\ bufs[handles[h].font_data].strong > 0
    /\ last.op = "glyph_for_char" => last.onLive

\* glyph_for_char has just run on a clone that is the only handle left of its
\* face (its source is dropped).
Wit_C2 ==
    /\ last.op = "glyph_for_char"
    /\ handles[last.h].state = "live" /\ handles[last.h].cloned
    /\ LiveHandlesOf(handles[last.h].freetype_face) = {last.h}
    /\ \A k \in HandleIds : k # last.h => handles[k].state = "free"

\* C3: while a native face is alive the buffer it was parsed from is alive;
\* a handle stores the buffer its face parses from; and a handle in the middle
\* of its drop has let go of the native object and still holds the buffer.
Thm_C3 ==
    /\ \A f \in FaceIds :
          faces[f].state = "live"
             => /\ faces[f].mem # NULL
                /\ bufs[faces[f].mem].state = "live"
                /\ bufs[faces[f].mem].strong > 0
    /\ \A h \in HandleIds :
          /\ handles[h].state = "live"
                => faces[handles[h].freetype_face].mem = handles[h].font_data
          /\ handles[h].state = "dropping"
                => /\ handles[h].freetype_face = NULL
                   /\ handles[h].font_data # NULL
                   /\ bufs[handles[h].font_data].state = "live"

\* Between Drop::drop and the drop of the fields: the native object is
\* released, the buffer is still referenced by the handle being dropped.
Wit_C3 ==
    \E h \in HandleIds :
        /\ handles[h].state = "dropping"
        /\ handles[h].freetype_face = NULL
        /\ \A f \in FaceIds : faces[f].state = "free"
        /\ bufs[handles[h].font_data].state = "live"
        /\ bufs[handles[h].font_data].strong = 1

\* C4: when the engine rejects the data or the face index, from_bytes and
\* from_file return the recoverable error value, do not abort, and leave no
\* handle and no native object behind.
Claim_C4 ==
    (last.op \in {"from_bytes", "from_file"} /\ last.rejected)
       => /\ last.ret = "Err"
          /\ ~aborted

\* C5: from_native_font reads chunk k of the stream from offset k*4096 into
\* buffer offset k*4096, stops at the first short read, and hands from_bytes a
\* buffer holding the stream byte for byte.
Claim_C5 ==
    (last.op = "from_native_font" /\ copied.reads # <<>>)
       => /\ \A k \in 1..Len(copied.reads) :
                /\ copied.reads[k].offset = (k - 1) * CHUNK_SIZE
                /\ copied.reads[k].dst = (k - 1) * CHUNK_SIZE
                /\ (k < Len(copied.reads)) = (copied.reads[k].n = CHUNK_SIZE)
          /\ HoldsStream(copied)

\* C6: the analyze probes report Collection(N) for every collection of N >= 1
\* faces and Single for every font that is not a collection.
Claim_C6 ==
    (last.op \in {"analyze_bytes", "analyze_file"} /\ last.ret # "panic" /\ last.data.valid)
       => IF last.data.collection
          THEN last.ret = "Collection" /\ last.n = last.data.num_faces
          ELSE last.ret = "Single"

AnalyzeCall ==
    \E t \in Threads :
        \/ \E src \in ArcSources, ok \in InitOutcomes(t) : analyze_bytes(t, src, ok)
        \/ \E file \in Files, ok \in InitOutcomes(t) : analyze_file(t, file, ok)

\* C7: a call of analyze_bytes or analyze_file, whatever it returns, leaves
\* the native face objects as they were (what it created it released, once)
\* and makes no handle.
Thm_C7 ==
    [][AnalyzeCall => /\ faces' = faces
                      /\ handles' = handles
                      /\ \A b \in BufIds : bufs'[b].state # "corrupt"]_vars

\* A probe has reported a collection while another face was alive.
Wit_C7 ==
    /\ last.op \in {"analyze_bytes", "analyze_file"}
    /\ last.ret = "Collection"
    /\ \E f \in FaceIds : faces[f].state = "live" /\ LiveHandlesOf(f) # {}

\* C8 as claimed: for a character the font does not map, glyph_for_char
\* returns the absent optional.
Claim_C8 ==
    (last.op = "glyph_for_char" /\ ~last.mapped) => ~last.opt.some

\* C8: for a character the font does not map, glyph_for_char returns the
\* present optional holding glyph id 0, the engine's answer for a missing
\* glyph, and does not panic.
Thm_C8 ==
    (last.op = "glyph_for_char" /\ ~last.mapped)
       => /\ last.opt = [some |-> TRUE, id |-> 0]
          /\ last.ret = "Ok"
          /\ ~aborted

Wit_C8 == last.op = "glyph_for_char" /\ ~last.mapped /\ last.onLive

\* C9 as claimed: every thread has exactly one engine instance once a load or
\* analyze call of its own has returned, none before its first call, and the
\* engine is initialised at most once per thread.
Claim_C9 ==
    \A t \in Threads :
        /\ lib[t].inits <= 1
        /\ lib[t].returned => lib[t].inst = 1
        /\ ~lib[t].called => lib[t].inst = 0

\* C9: the engine is initialised at most once per thread; a thread has exactly
\* one instance from its first call that gets through FREETYPE_LIBRARY.with on
\* (a from_file whose mapping fails returns before it), keeps it, and has none
\* before its first call.
Thm_C9 ==
    \A t \in Threads :
        /\ lib[t].inits <= 1
        /\ lib[t].inst = lib[t].inits
        /\ lib[t].reached => lib[t].inst = 1
        /\ ~lib[t].called => lib[t].inst = 0

\* Two loads have returned handles on one thread, which has one instance,
\* while another thread's only call was a from_file that could not map.
Wit_C9 ==
    \E t, u \in Threads :
        /\ \E h, k \in HandleIds :
              /\ h # k
              /\ handles[h].state = "live" /\ handles[h].thread = t
              /\ handles[k].state = "live" /\ handles[k].thread = t
        /\ lib[t].inits = 1
        /\ lib[u].returned /\ lib[u].inst = 0
\* The claim's reading of one contour, points first..lastp: the commands for
\* the points from i on, and whether every group fits before lastp.
RECURSIVE Groups(_, _, _)
Groups(tags, i, lastp) ==
    IF i > lastp THEN [fits |-> TRUE, cmds |-> <<>>]
    ELSE LET need == IF tags[i + 1] % 2 = 1 THEN 1
                     ELSE IF tags[i + 1] = 2 THEN 3 ELSE 2
             kind == IF need = 1 THEN "line_to"
                     ELSE IF need = 3 THEN "cubic_bezier_to" ELSE "quadratic_bezier_to"
         IN  IF i + need - 1 > lastp THEN [fits |-> FALSE, cmds |-> <<>>]
             ELSE LET rest == Groups(tags, i + need, lastp) IN
                  [fits |-> rest.fits,
                   cmds |-> <<[cmd |-> kind, pts |-> [j \in 1..need |-> i + j - 1]]>>
                            \o rest.cmds]

FirstOf(g, k) == IF k = 1 THEN 0 ELSE g.contours[k - 1] + 1

WellFormed(g) ==
    \A k \in 1..Len(g.contours) : Groups(g.tags, FirstOf(g, k) + 1, g.contours[k]).fits

RECURSIVE Expected(_, _)
Expected(g, k) ==
    IF k > Len(g.contours) THEN <<>>
    ELSE <<[cmd |-> "move_to", pts |-> <<FirstOf(g, k)>>]>>
         \o Groups(g.tags, FirstOf(g, k) + 1, g.contours[k]).cmds
         \o <<[cmd |-> "close", pts |-> <<>>]>>
         \o Expected(g, k + 1)

Kinds(cmds) == [k \in 1..Len(cmds) |-> cmds[k].cmd]

\* C10: for a loaded glyph whose contours are well formed, outline emits per
\* contour, in point order, move_to for the first point, then line_to /
\* quadratic_to / cubic_to for each group of the remaining points, then close;
\* so [on, off, on] gives move_to, quadratic_to, close, [on, cubic, cubic, on]
\* gives move_to, cubic_to, close, and n on-curve points give move_to,
\* n-1 line_to, close.
Thm_C10 ==
    (outcome \notin {"none", "load_failed"} /\ WellFormed(glyph))
       => /\ outcome = "Ok"
          /\ path = Expected(glyph, 1)
          /\ (glyph.tags = <<1, 0, 1>> /\ glyph.contours = <<2>>)
                => Kinds(path) = <<"move_to", "quadratic_bezier_to", "close">>
          /\ (glyph.tags = <<1, 2, 2, 1>> /\ glyph.contours = <<3>>)
                => Kinds(path) = <<"move_to", "cubic_bezier_to", "close">>
          /\ (Len(glyph.contours) = 1 /\ \A i \in 1..Len(glyph.tags) : glyph.tags[i] = 1)
                => Kinds(path) = <<"move_to">>
                                 \o [i \in 1..(Len(glyph.tags) - 1) |-> "line_to"]
                                 \o <<"close">>

\* outline has decoded the one-contour glyph [on, cubic, cubic, on].
Wit_C10 ==
    /\ outcome = "Ok"
    /\ glyph.tags = <<1, 2, 2, 1>> /\ glyph.contours = <<3>>
    /\ Len(path) = 3

FullNameRecords(face) ==
    {i \in 1..Len(face.names) :
        /\ face.names[i].name_id = TT_NAME_ID_FULL_NAME
        /\ face.names[i].platform_id = TT_PLATFORM_MICROSOFT
        /\ ~read_u16s(face.names[i].string).panic
        /\ from_utf16(read_u16s(face.names[i].string).units).some}

Resolved(face) ==
    IF face.ps # <<>> /\ from_utf8(face.ps).some THEN from_utf8(face.ps).v
    ELSE IF FullNameRecords(face) # {}
    THEN from_utf16(read_u16s(face.names[Min(FullNameRecords(face))].string).units).v
    ELSE face.family_name

\* C12: descriptor's display_name is the PostScript dictionary's full name
\* when the face has one; otherwise the text of the first name record, in
\* table order, that has the full-name id and decodes as UTF-16 big-endian,
\* records that do not decode or are in another encoding being skipped
\* without aborting; otherwise the family name.
Claim_C12 ==
    descr.state # "none"
       => /\ descr.state = "Ok"
          /\ descr.display_name = Resolved(nameFace)
====
